---- MODULE Spec2Model ----
(***************************************************************************)
(* State-machine model of the three agent registries of                    *)
(* packages/protocol/contracts: IdentityRegistry, ReputationRegistry and   *)
(* ValidationRegistry.  Every external function is one atomic action (an   *)
(* EVM transaction); a revert leaves the storage untouched.                *)
(***************************************************************************)
EXTENDS Integers, Sequences, FiniteSets, TLC

\* ------------------------------------------------------------------ bounds
MaxAgents == 2
MaxNonce == 2
MaxEpoch == 1

\* ------------------------------------------------------- program constants
\* 0.005 ether, counted in finney (1 finney = 0.001 ether)
REGISTRATION_FEE == 5
EXPIRATION_SLOTS == 1000
\* address(0)
NullAddress == 0
\* bytes32(0) as a data hash
ZeroDataHash == 0
\* bytes32(0) as a feedback authorization id
ZeroHash == <<>>
\* the id IEvvm(evvmAddress).getEvvmID() returns
EvvmID == 7

\* ------------------------------------------------------------ input sets
AgentIds == 1..MaxAgents
\* ids a caller may name: 0 and one id past the cap are never registered
AnyAgentId == 0..MaxAgents
Nonces == 1..MaxNonce
\* non-null account addresses
Accounts == {1, 2}
Addresses == {NullAddress} \cup Accounts
\* signing principals (`client`)
Clients == {1, 2}
\* "" is the empty string: "no domain"
NamedDomains == {"a.example.com", "b.example.com"}
Domains == {""} \cup NamedDomains
Fees == {0, REGISTRATION_FEE}
DataHashes == {1}
AnyDataHash == {ZeroDataHash} \cup DataHashes
\* uint8 scores offered by callers: the boundary values and one past the range
Responses == {0, 100, 101}
\* block heights the chain can be observed at
Heights == {0} \cup {e * EXPIRATION_SLOTS + j : e \in 1..MaxEpoch, j \in 0..1}
\* block.timestamp / block.difficulty / tx.origin mixed into an authorization id
Entropy == {0, 1}

VARIABLES
  \* IdentityRegistry storage
  agentIdCounter, agents, domainToAgentId, addressToAgentId,
  \* ReputationRegistry storage
  feedbackAuthorizations, clientServerToAuthId,
  \* ValidationRegistry storage
  validationRequests, validationResponses, hasResponse,
  \* checkAsyncNonce of each contract, by contract
  checkAsyncNonce,
  \* block.number
  blockNumber,
  \* outcome of the latest transaction
  last

identityVars == <<agentIdCounter, agents, domainToAgentId, addressToAgentId>>
reputationVars == <<feedbackAuthorizations, clientServerToAuthId>>
validationVars == <<validationRequests, validationResponses, hasResponse>>
storageVars == <<identityVars, reputationVars, validationVars, checkAsyncNonce>>
vars == <<storageVars, blockNumber, last>>

Registries == {"identity", "reputation", "validation"}

\* ------------------------------------------------------------ signatures
\* Signed messages are the strings the contracts build: Strings.toString(n)
\* is the decimal ToString(n), Strings.toHexString(x, w) is "0x" followed by
\* 2 * w lower-case hex digits.  A signature is what was signed and by whom;
\* ecrecover yields the signer only for the very string that was signed.
HexDigit == <<"0", "1", "2", "3", "4", "5", "6", "7", "8", "9",
              "a", "b", "c", "d", "e", "f">>

RECURSIVE toHexDigits(_, _)
toHexDigits(x, length) ==
  IF length = 0 THEN ""
  ELSE toHexDigits(x \div 16, length - 1) \o HexDigit[(x % 16) + 1]

\* toHexString without the fixed length: "0x" and the significant digits
toHexStringMinimal(x, width) ==
  "0x" \o (IF x < 16 THEN HexDigit[x + 1]
           ELSE toHexDigits(x \div 16, 1) \o HexDigit[(x % 16) + 1])

\* the strings of the values that get formatted, computed once
HexStrings ==
  [width \in {20, 32} |->
     [x \in Addresses \cup AnyDataHash |-> "0x" \o toHexDigits(x, 2 * width)]]

toHexString(x, width) == HexStrings[width][x]

Sign(signer, functionName, message) ==
  [signer |-> signer, signed |-> ToString(EvvmID) \o functionName \o message]

signatureVerification(evvmID, functionName, message, signature, expectedSigner) ==
  /\ signature.signed = ToString(evvmID) \o functionName \o message
  /\ signature.signer = expectedSigner

\* the signatures a caller may present for a call: the client's own over the
\* expected message, and one made with another key (0x999 in the tests)
Signatures(client, forgers, functionName, message) ==
  {Sign(signer, functionName, message) : signer \in {client} \cup forgers}

\* ---------------------------------------------------------- zero values
NoAgent == [agentId |-> 0, agentDomain |-> "", agentAddress |-> NullAddress]
NoRequest ==
  [agentValidatorId |-> 0, agentServerId |-> 0, dataHash |-> ZeroDataHash,
   timestamp |-> 0, responded |-> FALSE]

\* what a transaction leaves behind for an observer: a revert shows its reason
\* only; a committed one its return value, the (client, nonce) it carried and
\* the event it emitted
Outcome(op, err, ret, client, nonce, event) ==
  IF err = "ok"
  THEN [op |-> op, err |-> err, ret |-> ret, key |-> <<client, nonce>>, event |-> event]
  ELSE [op |-> op, err |-> err, ret |-> 0, key |-> <<>>, event |-> <<>>]

Init ==
  /\ agentIdCounter = 1
  /\ agents = [i \in AnyAgentId |-> NoAgent]
  /\ domainToAgentId = [d \in Domains |-> 0]
  /\ addressToAgentId = [a \in Addresses |-> 0]
  /\ feedbackAuthorizations = {}
  /\ clientServerToAuthId = [p \in AnyAgentId \X AnyAgentId |-> ZeroHash]
  /\ validationRequests = [h \in AnyDataHash |-> NoRequest]
  /\ validationResponses = [h \in AnyDataHash |-> 0]
  /\ hasResponse = [h \in AnyDataHash |-> FALSE]
  /\ checkAsyncNonce = [r \in Registries |-> [k \in Clients \X Nonces |-> FALSE]]
  /\ blockNumber = 0
  /\ last = Outcome("constructor", "ok", 0, 0, 0, <<>>)

\* ------------------------------------------------- IdentityRegistry reads
getAgentCount == agentIdCounter - 1

agentExists(agentId) == agents[agentId].agentId # 0

getAgent(agentId) ==
  IF agents[agentId].agentId = 0
  THEN [err |-> "AgentNotFound", info |-> NoAgent]
  ELSE [err |-> "ok", info |-> agents[agentId]]

\* resolveByDomain without its zero-id check
resolveByDomainUnchecked(agentDomain) ==
  [err |-> "ok", info |-> agents[domainToAgentId[agentDomain]]]

resolveByDomain(agentDomain) ==
  IF domainToAgentId[agentDomain] = 0
  THEN [err |-> "AgentNotFound", info |-> NoAgent]
  ELSE [err |-> "ok", info |-> agents[domainToAgentId[agentDomain]]]

resolveByAddress(agentAddress) ==
  IF addressToAgentId[agentAddress] = 0
  THEN [err |-> "AgentNotFound", info |-> NoAgent]
  ELSE [err |-> "ok", info |-> agents[addressToAgentId[agentAddress]]]

\* ------------------------------------------------ IdentityRegistry.newAgent
newAgentMessage(agentDomain, agentAddress, nonce) ==
  agentDomain \o "," \o toHexString(agentAddress, 20) \o "," \o ToString(nonce)

\* newAgent without the duplicate-address check
newAgentRevertNoAddressCheck(value, client, agentDomain, agentAddress, nonce, signature) ==
  IF value # REGISTRATION_FEE THEN "InsufficientFee"
  ELSE IF agentDomain = "" THEN "InvalidDomain"
  ELSE IF agentAddress = NullAddress THEN "InvalidAddress"
  ELSE IF domainToAgentId[agentDomain] # 0 THEN "DomainAlreadyRegistered"
  ELSE IF ~signatureVerification(EvvmID, "newAgent",
             newAgentMessage(agentDomain, agentAddress, nonce), signature, client)
    THEN "InvalidSignature"
  ELSE IF checkAsyncNonce["identity"][<<client, nonce>>] THEN "NonceAlreadyUsed"
  ELSE "ok"

\* newAgent with the signature and nonce checks ahead of the duplicate checks
newAgentRevertSignatureFirst(value, client, agentDomain, agentAddress, nonce, signature) ==
  IF value # REGISTRATION_FEE THEN "InsufficientFee"
  ELSE IF agentDomain = "" THEN "InvalidDomain"
  ELSE IF agentAddress = NullAddress THEN "InvalidAddress"
  ELSE IF ~signatureVerification(EvvmID, "newAgent",
             newAgentMessage(agentDomain, agentAddress, nonce), signature, client)
    THEN "InvalidSignature"
  ELSE IF checkAsyncNonce["identity"][<<client, nonce>>] THEN "NonceAlreadyUsed"
  ELSE IF domainToAgentId[agentDomain] # 0 THEN "DomainAlreadyRegistered"
  ELSE IF addressToAgentId[agentAddress] # 0 THEN "AddressAlreadyRegistered"
  ELSE "ok"

\* newAgent without the duplicate-domain check
newAgentRevertNoDomainCheck(value, client, agentDomain, agentAddress, nonce, signature) ==
  IF value # REGISTRATION_FEE THEN "InsufficientFee"
  ELSE IF agentDomain = "" THEN "InvalidDomain"
  ELSE IF agentAddress = NullAddress THEN "InvalidAddress"
  ELSE IF addressToAgentId[agentAddress] # 0 THEN "AddressAlreadyRegistered"
  ELSE IF ~signatureVerification(EvvmID, "newAgent",
             newAgentMessage(agentDomain, agentAddress, nonce), signature, client)
    THEN "InvalidSignature"
  ELSE IF checkAsyncNonce["identity"][<<client, nonce>>] THEN "NonceAlreadyUsed"
  ELSE "ok"

\* the revert reason of newAgent, "ok" when every check passes
newAgentRevert(value, client, agentDomain, agentAddress, nonce, signature) ==
  IF value # REGISTRATION_FEE THEN "InsufficientFee"
  ELSE IF agentDomain = "" THEN "InvalidDomain"
  ELSE IF agentAddress = NullAddress THEN "InvalidAddress"
  ELSE IF domainToAgentId[agentDomain] # 0 THEN "DomainAlreadyRegistered"
  ELSE IF addressToAgentId[agentAddress] # 0 THEN "AddressAlreadyRegistered"
  ELSE IF ~signatureVerification(EvvmID, "newAgent",
             newAgentMessage(agentDomain, agentAddress, nonce), signature, client)
    THEN "InvalidSignature"
  ELSE IF checkAsyncNonce["identity"][<<client, nonce>>] THEN "NonceAlreadyUsed"
  ELSE "ok"

\* agentId = ++_agentIdCounter
newAgentIdPreIncrement == agentIdCounter + 1

\* agentId = _agentIdCounter++
newAgentId == agentIdCounter

newAgent(value, client, agentDomain, agentAddress, nonce, signature) ==
  LET err == newAgentRevert(value, client, agentDomain, agentAddress, nonce, signature)
      agentId == newAgentId
  IN IF err # "ok"
     THEN /\ UNCHANGED <<storageVars, blockNumber>>
          /\ last' = Outcome("newAgent", err, 0, client, nonce, <<>>)
     ELSE /\ agentIdCounter <= MaxAgents
          /\ agentIdCounter' = agentIdCounter + 1
          /\ agents' = [agents EXCEPT ![agentId] =
                 [agentId |-> agentId, agentDomain |-> agentDomain,
                  agentAddress |-> agentAddress]]
          /\ domainToAgentId' = [domainToAgentId EXCEPT ![agentDomain] = agentId]
          /\ addressToAgentId' = [addressToAgentId EXCEPT ![agentAddress] = agentId]
          /\ checkAsyncNonce' =
               [checkAsyncNonce EXCEPT !["identity"][<<client, nonce>>] = TRUE]
          /\ last' = Outcome("newAgent", "ok", agentId, client, nonce,
                             <<"AgentRegistered", agentId, agentDomain, agentAddress>>)
          /\ UNCHANGED <<reputationVars, validationVars, blockNumber>>

\* --------------------------------------------- IdentityRegistry.updateAgent
updateAgentMessage(agentId, newAgentDomain, newAgentAddress, nonce) ==
  ToString(agentId) \o "," \o newAgentDomain \o ","
    \o toHexString(newAgentAddress, 20) \o "," \o ToString(nonce)

\* updateAgent that authorises the signing principal instead of the caller
updateAgentRevertSignerAuthorised(sender, client, agentId, newAgentDomain, newAgentAddress, nonce, signature) ==
  IF agents[agentId].agentId = 0 THEN "AgentNotFound"
  ELSE IF client # agents[agentId].agentAddress THEN "UnauthorizedUpdate"
  ELSE IF ~signatureVerification(EvvmID, "updateAgent",
             updateAgentMessage(agentId, newAgentDomain, newAgentAddress, nonce),
             signature, client)
    THEN "InvalidSignature"
  ELSE IF checkAsyncNonce["identity"][<<client, nonce>>] THEN "NonceAlreadyUsed"
  ELSE IF newAgentDomain # "" /\ domainToAgentId[newAgentDomain] # 0
    THEN "DomainAlreadyRegistered"
  ELSE IF newAgentAddress # NullAddress /\ addressToAgentId[newAgentAddress] # 0
    THEN "AddressAlreadyRegistered"
  ELSE "ok"

\* updateAgent that turns away a call that changes neither field
updateAgentRevertRequiresChange(sender, client, agentId, newAgentDomain, newAgentAddress, nonce, signature) ==
  IF agents[agentId].agentId = 0 THEN "AgentNotFound"
  ELSE IF sender # agents[agentId].agentAddress THEN "UnauthorizedUpdate"
  ELSE IF ~signatureVerification(EvvmID, "updateAgent",
             updateAgentMessage(agentId, newAgentDomain, newAgentAddress, nonce),
             signature, client)
    THEN "InvalidSignature"
  ELSE IF checkAsyncNonce["identity"][<<client, nonce>>] THEN "NonceAlreadyUsed"
  ELSE IF newAgentDomain = "" /\ newAgentAddress = NullAddress THEN "InvalidDomain"
  ELSE IF newAgentDomain # "" /\ domainToAgentId[newAgentDomain] # 0
    THEN "DomainAlreadyRegistered"
  ELSE IF newAgentAddress # NullAddress /\ addressToAgentId[newAgentAddress] # 0
    THEN "AddressAlreadyRegistered"
  ELSE "ok"

updateAgentRevert(sender, client, agentId, newAgentDomain, newAgentAddress, nonce, signature) ==
  IF agents[agentId].agentId = 0 THEN "AgentNotFound"
  ELSE IF sender # agents[agentId].agentAddress THEN "UnauthorizedUpdate"
  ELSE IF ~signatureVerification(EvvmID, "updateAgent",
             updateAgentMessage(agentId, newAgentDomain, newAgentAddress, nonce),
             signature, client)
    THEN "InvalidSignature"
  ELSE IF checkAsyncNonce["identity"][<<client, nonce>>] THEN "NonceAlreadyUsed"
  ELSE IF newAgentDomain # "" /\ domainToAgentId[newAgentDomain] # 0
    THEN "DomainAlreadyRegistered"
  ELSE IF newAgentAddress # NullAddress /\ addressToAgentId[newAgentAddress] # 0
    THEN "AddressAlreadyRegistered"
  ELSE "ok"

\* the block without its delete of the old entry
updateDomainIndexKeepOld(agentId, newAgentDomain) ==
  IF newAgentDomain # ""
  THEN [domainToAgentId EXCEPT ![newAgentDomain] = agentId]
  ELSE domainToAgentId

\* the domain index after the "update domain if provided" block
updateDomainIndex(agentId, newAgentDomain) ==
  IF newAgentDomain # ""
  THEN [[domainToAgentId EXCEPT ![agents[agentId].agentDomain] = 0]
          EXCEPT ![newAgentDomain] = agentId]
  ELSE domainToAgentId

\* the block without its delete of the old entry
updateAddressIndexKeepOld(agentId, newAgentAddress) ==
  IF newAgentAddress # NullAddress
  THEN [addressToAgentId EXCEPT ![newAgentAddress] = agentId]
  ELSE addressToAgentId

\* the address index after the "update address if provided" block
updateAddressIndex(agentId, newAgentAddress) ==
  IF newAgentAddress # NullAddress
  THEN [[addressToAgentId EXCEPT ![agents[agentId].agentAddress] = 0]
          EXCEPT ![newAgentAddress] = agentId]
  ELSE addressToAgentId

\* the record rebuilt from the new fields alone, its id left at zero
updatedAgentDropsId(agentId, newAgentDomain, newAgentAddress) ==
  [agentId |-> 0,
   agentDomain |-> IF newAgentDomain # "" THEN newAgentDomain
                   ELSE agents[agentId].agentDomain,
   agentAddress |-> IF newAgentAddress # NullAddress THEN newAgentAddress
                    ELSE agents[agentId].agentAddress]

\* the agent record after both blocks
updatedAgent(agentId, newAgentDomain, newAgentAddress) ==
  [agentId |-> agents[agentId].agentId,
   agentDomain |-> IF newAgentDomain # "" THEN newAgentDomain
                   ELSE agents[agentId].agentDomain,
   agentAddress |-> IF newAgentAddress # NullAddress THEN newAgentAddress
                    ELSE agents[agentId].agentAddress]

updateAgent(sender, client, agentId, newAgentDomain, newAgentAddress, nonce, signature) ==
  LET err == updateAgentRevert(sender, client, agentId, newAgentDomain,
                               newAgentAddress, nonce, signature)
      agent == updatedAgent(agentId, newAgentDomain, newAgentAddress)
  IN IF err # "ok"
     THEN /\ UNCHANGED <<storageVars, blockNumber>>
          /\ last' = Outcome("updateAgent", err, 0, client, nonce, <<>>)
     ELSE /\ agents' = [agents EXCEPT ![agentId] = agent]
          /\ domainToAgentId' = updateDomainIndex(agentId, newAgentDomain)
          /\ addressToAgentId' = updateAddressIndex(agentId, newAgentAddress)
          /\ checkAsyncNonce' =
               [checkAsyncNonce EXCEPT !["identity"][<<client, nonce>>] = TRUE]
          /\ last' = Outcome("updateAgent", "ok", 1, client, nonce,
                             <<"AgentUpdated", agentId, agent.agentDomain,
                               agent.agentAddress>>)
          /\ UNCHANGED <<agentIdCounter, reputationVars, validationVars, blockNumber>>

\* ------------------------------------------ ReputationRegistry.acceptFeedback
acceptFeedbackMessage(agentClientId, agentServerId, nonce) ==
  ToString(agentClientId) \o "," \o ToString(agentServerId) \o "," \o ToString(nonce)

\* acceptFeedback that looks its nonce up in the identity registry's set
acceptFeedbackRevertSharedNonces(sender, client, agentClientId, agentServerId, nonce, signature) ==
  IF ~agentExists(agentClientId) THEN "AgentNotFound"
  ELSE IF ~agentExists(agentServerId) THEN "AgentNotFound"
  ELSE IF ~signatureVerification(EvvmID, "updateAgent",
             acceptFeedbackMessage(agentClientId, agentServerId, nonce),
             signature, client)
    THEN "InvalidSignature"
  ELSE IF checkAsyncNonce["identity"][<<client, nonce>>] THEN "NonceAlreadyUsed"
  ELSE IF sender # getAgent(agentServerId).info.agentAddress
    THEN "UnauthorizedFeedback"
  ELSE IF clientServerToAuthId[<<agentClientId, agentServerId>>] # ZeroHash
    THEN "FeedbackAlreadyAuthorized"
  ELSE "ok"

\* acceptFeedback that authorises the client agent's address
acceptFeedbackRevertClientAuthorised(sender, client, agentClientId, agentServerId, nonce, signature) ==
  IF ~agentExists(agentClientId) THEN "AgentNotFound"
  ELSE IF ~agentExists(agentServerId) THEN "AgentNotFound"
  ELSE IF ~signatureVerification(EvvmID, "updateAgent",
             acceptFeedbackMessage(agentClientId, agentServerId, nonce),
             signature, client)
    THEN "InvalidSignature"
  ELSE IF checkAsyncNonce["reputation"][<<client, nonce>>] THEN "NonceAlreadyUsed"
  ELSE IF sender # getAgent(agentClientId).info.agentAddress
    THEN "UnauthorizedFeedback"
  ELSE IF clientServerToAuthId[<<agentClientId, agentServerId>>] # ZeroHash
    THEN "FeedbackAlreadyAuthorized"
  ELSE "ok"

\* acceptFeedback without the existing-authorization check
acceptFeedbackRevertNoConflictCheck(sender, client, agentClientId, agentServerId, nonce, signature) ==
  IF ~agentExists(agentClientId) THEN "AgentNotFound"
  ELSE IF ~agentExists(agentServerId) THEN "AgentNotFound"
  ELSE IF ~signatureVerification(EvvmID, "updateAgent",
             acceptFeedbackMessage(agentClientId, agentServerId, nonce),
             signature, client)
    THEN "InvalidSignature"
  ELSE IF checkAsyncNonce["reputation"][<<client, nonce>>] THEN "NonceAlreadyUsed"
  ELSE IF sender # getAgent(agentServerId).info.agentAddress
    THEN "UnauthorizedFeedback"
  ELSE "ok"

\* acceptFeedback that takes signatures of the server agent's address only
acceptFeedbackRevertSignerIsServer(sender, client, agentClientId, agentServerId, nonce, signature) ==
  IF ~agentExists(agentClientId) THEN "AgentNotFound"
  ELSE IF ~agentExists(agentServerId) THEN "AgentNotFound"
  ELSE IF ~signatureVerification(EvvmID, "updateAgent",
             acceptFeedbackMessage(agentClientId, agentServerId, nonce),
             signature, client)
    THEN "InvalidSignature"
  ELSE IF client # getAgent(agentServerId).info.agentAddress THEN "InvalidSignature"
  ELSE IF checkAsyncNonce["reputation"][<<client, nonce>>] THEN "NonceAlreadyUsed"
  ELSE IF sender # getAgent(agentServerId).info.agentAddress
    THEN "UnauthorizedFeedback"
  ELSE IF clientServerToAuthId[<<agentClientId, agentServerId>>] # ZeroHash
    THEN "FeedbackAlreadyAuthorized"
  ELSE "ok"

acceptFeedbackRevert(sender, client, agentClientId, agentServerId, nonce, signature) ==
  IF ~agentExists(agentClientId) THEN "AgentNotFound"
  ELSE IF ~agentExists(agentServerId) THEN "AgentNotFound"
  ELSE IF ~signatureVerification(EvvmID, "updateAgent",
             acceptFeedbackMessage(agentClientId, agentServerId, nonce),
             signature, client)
    THEN "InvalidSignature"
  ELSE IF checkAsyncNonce["reputation"][<<client, nonce>>] THEN "NonceAlreadyUsed"
  ELSE IF sender # getAgent(agentServerId).info.agentAddress
    THEN "UnauthorizedFeedback"
  ELSE IF clientServerToAuthId[<<agentClientId, agentServerId>>] # ZeroHash
    THEN "FeedbackAlreadyAuthorized"
  ELSE "ok"

\* an id hashed from the entropy alone, the agent ids left out
generateFeedbackAuthIdEntropyOnly(agentClientId, agentServerId, entropy) ==
  <<entropy>>

\* keccak256(abi.encodePacked(...)): a hash is its preimage, never bytes32(0)
generateFeedbackAuthId(agentClientId, agentServerId, entropy) ==
  <<agentClientId, agentServerId, entropy>>

acceptFeedback(sender, client, agentClientId, agentServerId, nonce, signature, entropy) ==
  LET err == acceptFeedbackRevert(sender, client, agentClientId, agentServerId,
                                  nonce, signature)
      feedbackAuthId == generateFeedbackAuthId(agentClientId, agentServerId, entropy)
  IN IF err # "ok"
     THEN /\ UNCHANGED <<storageVars, blockNumber>>
          /\ last' = Outcome("acceptFeedback", err, 0, client, nonce, <<>>)
     ELSE /\ feedbackAuthorizations' = feedbackAuthorizations \cup {feedbackAuthId}
          /\ clientServerToAuthId' =
               [clientServerToAuthId EXCEPT ![<<agentClientId, agentServerId>>] =
                  feedbackAuthId]
          /\ checkAsyncNonce' =
               [checkAsyncNonce EXCEPT !["reputation"][<<client, nonce>>] = TRUE]
          /\ last' = Outcome("acceptFeedback", "ok", 0, client, nonce,
                             <<"AuthFeedback", agentClientId, agentServerId,
                               feedbackAuthId>>)
          /\ UNCHANGED <<identityVars, validationVars, blockNumber>>

\* ------------------------------------------------- ReputationRegistry reads
\* isFeedbackAuthorized that falls back on the reversed pair
isFeedbackAuthorizedEitherOrder(agentClientId, agentServerId) ==
  LET forward == clientServerToAuthId[<<agentClientId, agentServerId>>]
      feedbackAuthId == IF forward # ZeroHash THEN forward
                        ELSE clientServerToAuthId[<<agentServerId, agentClientId>>]
  IN [isAuthorized |-> feedbackAuthId # ZeroHash
                        /\ feedbackAuthId \in feedbackAuthorizations,
      feedbackAuthId |-> feedbackAuthId]

isFeedbackAuthorized(agentClientId, agentServerId) ==
  LET feedbackAuthId == clientServerToAuthId[<<agentClientId, agentServerId>>]
  IN [isAuthorized |-> feedbackAuthId # ZeroHash
                        /\ feedbackAuthId \in feedbackAuthorizations,
      feedbackAuthId |-> feedbackAuthId]

getFeedbackAuthId(agentClientId, agentServerId) ==
  clientServerToAuthId[<<agentClientId, agentServerId>>]

\* -------------------------------------- ValidationRegistry.validationRequest
validationRequestMessage(agentValidatorId, agentServerId, dataHash, nonce) ==
  ToString(agentValidatorId) \o "," \o ToString(agentServerId) \o ","
    \o toHexString(dataHash, 32) \o "," \o ToString(nonce)

\* validationRequest that looks at the existing record before the nonce
validationRequestRevertStillValidFirst(client, agentValidatorId, agentServerId, dataHash, nonce, signature) ==
  IF dataHash = ZeroDataHash THEN "InvalidDataHash"
  ELSE IF ~agentExists(agentValidatorId) THEN "AgentNotFound"
  ELSE IF ~agentExists(agentServerId) THEN "AgentNotFound"
  ELSE IF ~signatureVerification(EvvmID, "updateAgent",
             validationRequestMessage(agentValidatorId, agentServerId, dataHash, nonce),
             signature, client)
    THEN "InvalidSignature"
  ELSE IF /\ validationRequests[dataHash].dataHash # ZeroDataHash
          /\ blockNumber <= validationRequests[dataHash].timestamp + EXPIRATION_SLOTS
    THEN "ok"
  ELSE IF checkAsyncNonce["validation"][<<client, nonce>>] THEN "NonceAlreadyUsed"
  ELSE "ok"

\* validationRequest without the existence check of the server agent
validationRequestRevertNoServerCheck(client, agentValidatorId, agentServerId, dataHash, nonce, signature) ==
  IF dataHash = ZeroDataHash THEN "InvalidDataHash"
  ELSE IF ~agentExists(agentValidatorId) THEN "AgentNotFound"
  ELSE IF ~signatureVerification(EvvmID, "updateAgent",
             validationRequestMessage(agentValidatorId, agentServerId, dataHash, nonce),
             signature, client)
    THEN "InvalidSignature"
  ELSE IF checkAsyncNonce["validation"][<<client, nonce>>] THEN "NonceAlreadyUsed"
  ELSE "ok"

validationRequestRevert(client, agentValidatorId, agentServerId, dataHash, nonce, signature) ==
  IF dataHash = ZeroDataHash THEN "InvalidDataHash"
  ELSE IF ~agentExists(agentValidatorId) THEN "AgentNotFound"
  ELSE IF ~agentExists(agentServerId) THEN "AgentNotFound"
  ELSE IF ~signatureVerification(EvvmID, "updateAgent",
             validationRequestMessage(agentValidatorId, agentServerId, dataHash, nonce),
             signature, client)
    THEN "InvalidSignature"
  ELSE IF checkAsyncNonce["validation"][<<client, nonce>>] THEN "NonceAlreadyUsed"
  ELSE "ok"

\* the test that lets a record that has its response be replaced
requestStillValidUnanswered(dataHash) ==
  /\ validationRequests[dataHash].dataHash # ZeroDataHash
  /\ ~validationRequests[dataHash].responded
  /\ blockNumber <= validationRequests[dataHash].timestamp + EXPIRATION_SLOTS

\* the test with the window's last height excluded
requestStillValidStrict(dataHash) ==
  /\ validationRequests[dataHash].dataHash # ZeroDataHash
  /\ blockNumber < validationRequests[dataHash].timestamp + EXPIRATION_SLOTS

\* "request already exists and is still valid": the branch that only re-emits
requestStillValid(dataHash) ==
  /\ validationRequests[dataHash].dataHash # ZeroDataHash
  /\ blockNumber <= validationRequests[dataHash].timestamp + EXPIRATION_SLOTS

validationRequest(client, agentValidatorId, agentServerId, dataHash, nonce, signature) ==
  LET err == validationRequestRevert(client, agentValidatorId, agentServerId,
                                     dataHash, nonce, signature)
      event == <<"ValidationRequestEvent", agentValidatorId, agentServerId, dataHash>>
  IN IF err # "ok"
     THEN /\ UNCHANGED <<storageVars, blockNumber>>
          /\ last' = Outcome("validationRequest", err, 0, client, nonce, <<>>)
     ELSE IF requestStillValid(dataHash)
     THEN /\ UNCHANGED <<storageVars, blockNumber>>
          /\ last' = Outcome("validationRequest", "ok", 0, client, nonce, event)
     ELSE /\ validationRequests' = [validationRequests EXCEPT ![dataHash] =
                 [agentValidatorId |-> agentValidatorId,
                  agentServerId |-> agentServerId,
                  dataHash |-> dataHash,
                  timestamp |-> blockNumber,
                  responded |-> FALSE]]
          /\ checkAsyncNonce' =
               [checkAsyncNonce EXCEPT !["validation"][<<client, nonce>>] = TRUE]
          /\ last' = Outcome("validationRequest", "ok", 0, client, nonce, event)
          /\ UNCHANGED <<identityVars, reputationVars, validationResponses,
                         hasResponse, blockNumber>>

\* ------------------------------------- ValidationRegistry.validationResponse
validationResponseMessage(dataHash, response, nonce) ==
  toHexString(dataHash, 32) \o "," \o ToString(response) \o "," \o ToString(nonce)

\* validationResponse that checks the caller before the nonce
validationResponseRevertCallerBeforeNonce(sender, client, dataHash, response, nonce, signature) ==
  IF response > 100 THEN "InvalidResponse"
  ELSE IF validationRequests[dataHash].dataHash = ZeroDataHash
    THEN "ValidationRequestNotFound"
  ELSE IF blockNumber > validationRequests[dataHash].timestamp + EXPIRATION_SLOTS
    THEN "RequestExpired"
  ELSE IF validationRequests[dataHash].responded THEN "ValidationAlreadyResponded"
  ELSE IF ~signatureVerification(EvvmID, "updateAgent",
             validationResponseMessage(dataHash, response, nonce), signature, client)
    THEN "InvalidSignature"
  ELSE IF getAgent(validationRequests[dataHash].agentValidatorId).err # "ok"
    THEN "AgentNotFound"
  ELSE IF sender # getAgent(validationRequests[dataHash].agentValidatorId).info.agentAddress
    THEN "UnauthorizedValidator"
  ELSE IF checkAsyncNonce["validation"][<<client, nonce>>] THEN "NonceAlreadyUsed"
  ELSE "ok"

\* validationResponse for which the window's last height is already expired
validationResponseRevertExpiresAtWindow(sender, client, dataHash, response, nonce, signature) ==
  IF response > 100 THEN "InvalidResponse"
  ELSE IF validationRequests[dataHash].dataHash = ZeroDataHash
    THEN "ValidationRequestNotFound"
  ELSE IF blockNumber >= validationRequests[dataHash].timestamp + EXPIRATION_SLOTS
    THEN "RequestExpired"
  ELSE IF validationRequests[dataHash].responded THEN "ValidationAlreadyResponded"
  ELSE IF ~signatureVerification(EvvmID, "updateAgent",
             validationResponseMessage(dataHash, response, nonce), signature, client)
    THEN "InvalidSignature"
  ELSE IF checkAsyncNonce["validation"][<<client, nonce>>] THEN "NonceAlreadyUsed"
  ELSE IF getAgent(validationRequests[dataHash].agentValidatorId).err # "ok"
    THEN "AgentNotFound"
  ELSE IF sender # getAgent(validationRequests[dataHash].agentValidatorId).info.agentAddress
    THEN "UnauthorizedValidator"
  ELSE "ok"

\* validationResponse without the range check of the score
validationResponseRevertNoRangeCheck(sender, client, dataHash, response, nonce, signature) ==
  IF validationRequests[dataHash].dataHash = ZeroDataHash
    THEN "ValidationRequestNotFound"
  ELSE IF blockNumber > validationRequests[dataHash].timestamp + EXPIRATION_SLOTS
    THEN "RequestExpired"
  ELSE IF validationRequests[dataHash].responded THEN "ValidationAlreadyResponded"
  ELSE IF ~signatureVerification(EvvmID, "updateAgent",
             validationResponseMessage(dataHash, response, nonce), signature, client)
    THEN "InvalidSignature"
  ELSE IF checkAsyncNonce["validation"][<<client, nonce>>] THEN "NonceAlreadyUsed"
  ELSE IF getAgent(validationRequests[dataHash].agentValidatorId).err # "ok"
    THEN "AgentNotFound"
  ELSE IF sender # getAgent(validationRequests[dataHash].agentValidatorId).info.agentAddress
    THEN "UnauthorizedValidator"
  ELSE "ok"

\* validationResponse that authorises the server agent's address
validationResponseRevertServerAuthorised(sender, client, dataHash, response, nonce, signature) ==
  IF response > 100 THEN "InvalidResponse"
  ELSE IF validationRequests[dataHash].dataHash = ZeroDataHash
    THEN "ValidationRequestNotFound"
  ELSE IF blockNumber > validationRequests[dataHash].timestamp + EXPIRATION_SLOTS
    THEN "RequestExpired"
  ELSE IF validationRequests[dataHash].responded THEN "ValidationAlreadyResponded"
  ELSE IF ~signatureVerification(EvvmID, "updateAgent",
             validationResponseMessage(dataHash, response, nonce), signature, client)
    THEN "InvalidSignature"
  ELSE IF checkAsyncNonce["validation"][<<client, nonce>>] THEN "NonceAlreadyUsed"
  ELSE IF getAgent(validationRequests[dataHash].agentValidatorId).err # "ok"
    THEN "AgentNotFound"
  ELSE IF sender # getAgent(validationRequests[dataHash].agentServerId).info.agentAddress
    THEN "UnauthorizedValidator"
  ELSE "ok"

validationResponseRevert(sender, client, dataHash, response, nonce, signature) ==
  IF response > 100 THEN "InvalidResponse"
  ELSE IF validationRequests[dataHash].dataHash = ZeroDataHash
    THEN "ValidationRequestNotFound"
  ELSE IF blockNumber > validationRequests[dataHash].timestamp + EXPIRATION_SLOTS
    THEN "RequestExpired"
  ELSE IF validationRequests[dataHash].responded THEN "ValidationAlreadyResponded"
  ELSE IF ~signatureVerification(EvvmID, "updateAgent",
             validationResponseMessage(dataHash, response, nonce), signature, client)
    THEN "InvalidSignature"
  ELSE IF checkAsyncNonce["validation"][<<client, nonce>>] THEN "NonceAlreadyUsed"
  ELSE IF getAgent(validationRequests[dataHash].agentValidatorId).err # "ok"
    THEN "AgentNotFound"
  ELSE IF sender # getAgent(validationRequests[dataHash].agentValidatorId).info.agentAddress
    THEN "UnauthorizedValidator"
  ELSE "ok"

\* validationResponse that consumes the nonce and then returns, instead of
\* reverting, when the caller is not the validator
validationResponseReturnsEarly(sender, client, dataHash, response, nonce, signature) ==
  LET err == validationResponseRevert(sender, client, dataHash, response, nonce,
                                      signature)
      request == validationRequests[dataHash]
  IN IF err = "UnauthorizedValidator"
     THEN /\ checkAsyncNonce' =
               [checkAsyncNonce EXCEPT !["validation"][<<client, nonce>>] = TRUE]
          /\ last' = Outcome("validationResponse", err, 0, client, nonce, <<>>)
          /\ UNCHANGED <<identityVars, reputationVars, validationVars, blockNumber>>
     ELSE IF err # "ok"
     THEN /\ UNCHANGED <<storageVars, blockNumber>>
          /\ last' = Outcome("validationResponse", err, 0, client, nonce, <<>>)
     ELSE /\ validationRequests' =
               [validationRequests EXCEPT ![dataHash].responded = TRUE]
          /\ validationResponses' = [validationResponses EXCEPT ![dataHash] = response]
          /\ hasResponse' = [hasResponse EXCEPT ![dataHash] = TRUE]
          /\ checkAsyncNonce' =
               [checkAsyncNonce EXCEPT !["validation"][<<client, nonce>>] = TRUE]
          /\ last' = Outcome("validationResponse", "ok", 0, client, nonce,
                             <<"ValidationResponseEvent", request.agentValidatorId,
                               request.agentServerId, dataHash, response>>)
          /\ UNCHANGED <<identityVars, reputationVars, blockNumber>>

validationResponse(sender, client, dataHash, response, nonce, signature) ==
  LET err == validationResponseRevert(sender, client, dataHash, response, nonce,
                                      signature)
      request == validationRequests[dataHash]
  IN IF err # "ok"
     THEN /\ UNCHANGED <<storageVars, blockNumber>>
          /\ last' = Outcome("validationResponse", err, 0, client, nonce, <<>>)
     ELSE /\ validationRequests' =
               [validationRequests EXCEPT ![dataHash].responded = TRUE]
          /\ validationResponses' = [validationResponses EXCEPT ![dataHash] = response]
          /\ hasResponse' = [hasResponse EXCEPT ![dataHash] = TRUE]
          /\ checkAsyncNonce' =
               [checkAsyncNonce EXCEPT !["validation"][<<client, nonce>>] = TRUE]
          /\ last' = Outcome("validationResponse", "ok", 0, client, nonce,
                             <<"ValidationResponseEvent", request.agentValidatorId,
                               request.agentServerId, dataHash, response>>)
          /\ UNCHANGED <<identityVars, reputationVars, blockNumber>>

\* ------------------------------------------------ ValidationRegistry reads
getValidationRequest(dataHash) ==
  IF validationRequests[dataHash].dataHash = ZeroDataHash
  THEN [err |-> "ValidationRequestNotFound", request |-> NoRequest]
  ELSE [err |-> "ok", request |-> validationRequests[dataHash]]

\* isValidationPending that does not look at responded
isValidationPendingIgnoresResponded(dataHash) ==
  LET request == validationRequests[dataHash]
      exists == request.dataHash # ZeroDataHash
      expired == blockNumber > request.timestamp + EXPIRATION_SLOTS
  IN [exists |-> exists, pending |-> exists /\ ~expired]

\* isValidationPending that never takes a request for expired
isValidationPendingNeverExpires(dataHash) ==
  LET request == validationRequests[dataHash]
      exists == request.dataHash # ZeroDataHash
  IN [exists |-> exists, pending |-> exists /\ ~request.responded]

isValidationPending(dataHash) ==
  LET request == validationRequests[dataHash]
      exists == request.dataHash # ZeroDataHash
      expired == blockNumber > request.timestamp + EXPIRATION_SLOTS
  IN [exists |-> exists, pending |-> exists /\ ~expired /\ ~request.responded]

getValidationResponse(dataHash) ==
  [hasResponse |-> hasResponse[dataHash],
   response |-> IF hasResponse[dataHash] THEN validationResponses[dataHash] ELSE 0]

getExpirationSlots == EXPIRATION_SLOTS

\* ------------------------------------------------------------ environment
\* block.number never decreases; blocks are mined between transactions
mineBlocks(height) ==
  /\ height > blockNumber
  /\ blockNumber' = height
  /\ last' = Outcome("mineBlocks", "ok", 0, 0, 0, <<>>)
  /\ UNCHANGED storageVars

\* ----------------------------------------------------------- transactions
\* Each call draws its arguments from the sets of a profile I.  A nonce is an
\* opaque token that the contracts only look up and print, so callers are
\* taken to use them in order: a call carries a nonce its client has already
\* consumed in that contract (a replay) or the client's first unconsumed one.
NoncesFor(registry, client, I) ==
  {n \in I.nonces :
     \A m \in I.nonces : m < n => checkAsyncNonce[registry][<<client, m>>]}

newAgentCall(I) ==
  \E value \in I.fees, client \in I.clients, agentDomain \in I.domains,
     agentAddress \in I.addresses :
    \E nonce \in NoncesFor("identity", client, I) :
    \E signature \in Signatures(client, I.forgers, "newAgent",
                       newAgentMessage(agentDomain, agentAddress, nonce)) :
      newAgent(value, client, agentDomain, agentAddress, nonce, signature)

updateAgentCall(I) ==
  \E sender \in I.senders, client \in I.clients, agentId \in I.agentIds,
     newAgentDomain \in I.domains, newAgentAddress \in I.addresses :
    \E nonce \in NoncesFor("identity", client, I) :
    \E signature \in Signatures(client, I.forgers, "updateAgent",
                       updateAgentMessage(agentId, newAgentDomain, newAgentAddress, nonce)) :
      updateAgent(sender, client, agentId, newAgentDomain, newAgentAddress, nonce,
                  signature)

acceptFeedbackCall(I) ==
  \E sender \in I.senders, client \in I.clients, agentClientId \in I.agentIds,
     agentServerId \in I.agentIds, entropy \in I.entropy :
    \E nonce \in NoncesFor("reputation", client, I) :
    \E signature \in Signatures(client, I.forgers, "updateAgent",
                       acceptFeedbackMessage(agentClientId, agentServerId, nonce)) :
      acceptFeedback(sender, client, agentClientId, agentServerId, nonce, signature,
                     entropy)

validationRequestCall(I) ==
  \E client \in I.clients, agentValidatorId \in I.agentIds,
     agentServerId \in I.agentIds, dataHash \in I.dataHashes :
    \E nonce \in NoncesFor("validation", client, I) :
    \E signature \in Signatures(client, I.forgers, "updateAgent",
                       validationRequestMessage(agentValidatorId, agentServerId,
                                                dataHash, nonce)) :
      validationRequest(client, agentValidatorId, agentServerId, dataHash, nonce,
                        signature)

validationResponseCall(I) ==
  \E sender \in I.senders, client \in I.clients, dataHash \in I.dataHashes,
     response \in I.responses :
    \E nonce \in NoncesFor("validation", client, I) :
    \E signature \in Signatures(client, I.forgers, "updateAgent",
                       validationResponseMessage(dataHash, response, nonce)) :
      validationResponse(sender, client, dataHash, response, nonce, signature)

mineBlocksStep(I) == \E height \in I.heights : mineBlocks(height)

\* the widest profile
Wide ==
  [fees |-> Fees, clients |-> Clients, forgers |-> {999}, nonces |-> Nonces,
   domains |-> Domains, addresses |-> Addresses, senders |-> Accounts,
   agentIds |-> AnyAgentId, dataHashes |-> AnyDataHash, responses |-> Responses,
   entropy |-> Entropy, heights |-> Heights]

\* the identity registry as the other registries need it: one client
\* registers agents and moves them to another address by well-formed calls
Setup ==
  [Wide EXCEPT !.fees = {REGISTRATION_FEE}, !.clients = {1}, !.forgers = {},
               !.agentIds = AgentIds, !.nonces = {1, 2}]
Register == [Setup EXCEPT !.domains = NamedDomains, !.addresses = Accounts]
Move == [Setup EXCEPT !.domains = {""}, !.addresses = Accounts]

\* calls of one client that name agent ids of the registry's range
Narrow == [Wide EXCEPT !.clients = {1}, !.agentIds = AgentIds, !.entropy = {0}]

\* the three registries together
Next ==
  \/ newAgentCall([Register EXCEPT !.fees = Fees, !.forgers = {999}])
  \/ updateAgentCall([Move EXCEPT !.forgers = {999}])
  \/ acceptFeedbackCall([Narrow EXCEPT !.nonces = {1}])
  \/ validationRequestCall(Narrow)
  \/ validationResponseCall([Narrow EXCEPT !.responses = {100, 101}])
  \/ mineBlocksStep(Wide)

Spec == Init /\ [][Next]_vars

\* the identity registry on its own
NextIdentity == newAgentCall(Wide) \/ updateAgentCall(Wide)

SpecIdentity == Init /\ [][NextIdentity]_vars

\* the validation registry over the identity registry
NextValidation ==
  \/ newAgentCall(Register)
  \/ updateAgentCall(Move)
  \/ validationRequestCall([Wide EXCEPT !.agentIds = AgentIds])
  \/ validationResponseCall(Wide)
  \/ mineBlocksStep(Wide)

SpecValidation == Init /\ [][NextValidation]_vars

\* the reputation registry over the identity registry
NextReputation ==
  \/ newAgentCall(Register)
  \/ updateAgentCall(Move)
  \/ acceptFeedbackCall(Wide)

SpecReputation == Init /\ [][NextReputation]_vars

\* ------------------------------------------------------ signing principals
\* agents registered by one principal; the calls made on their behalf are
\* signed by either principal and submitted by any account
Principals ==
  [Wide EXCEPT !.fees = {REGISTRATION_FEE}, !.forgers = {}, !.agentIds = AgentIds,
               !.nonces = {1}, !.domains = {""}, !.dataHashes = DataHashes,
               !.responses = {100}, !.entropy = {0}]

NextPrincipals ==
  \/ newAgentCall(Register)
  \/ updateAgentCall([Principals EXCEPT !.nonces = Nonces])
  \/ acceptFeedbackCall(Principals)
  \/ validationRequestCall([Principals EXCEPT !.clients = {1}])
  \/ validationResponseCall(Principals)

SpecPrincipals == Init /\ [][NextPrincipals]_vars

\* ------------------------------------------------------- advancing heights
\* Heights over one window more than Heights: a request can be made, expire
\* and be made again, and expire again.
LiveHeights ==
  {0} \cup {e * (EXPIRATION_SLOTS + 1) - j : e \in 1..(MaxEpoch + 1), j \in 0..1}

LastHeight == (MaxEpoch + 1) * (EXPIRATION_SLOTS + 1)

Live ==
  [Wide EXCEPT !.clients = {1}, !.forgers = {}, !.agentIds = AgentIds,
               !.dataHashes = DataHashes, !.responses = {100},
               !.heights = LiveHeights]

\* The heights modelled end at LastHeight, those of the chain do not: a
\* request is taken only where its window closes before LastHeight, so that
\* the end of the heights modelled is never what keeps a request pending.
validationRequestCallInTime(I) ==
  /\ blockNumber + EXPIRATION_SLOTS < LastHeight
  /\ validationRequestCall(I)

NextLive ==
  \/ newAgentCall(Register)
  \/ validationRequestCallInTime(Live)
  \/ validationResponseCall(Live)
  \/ mineBlocksStep(Live)

\* blocks keep being mined whatever the registries are asked to do
SpecLive == Init /\ [][NextLive]_vars /\ WF_vars(mineBlocksStep(Live))

\* ----------------------------------------------------- relayed transactions
\* An external call as the EVM delivers it: msg.sender comes with every call.
\* newAgent and validationRequest never read it.

\* newAgent that turns away every caller but the signing principal
newAgentBySignerOnly(sender, value, client, agentDomain, agentAddress, nonce, signature) ==
  IF sender # client
  THEN /\ UNCHANGED <<storageVars, blockNumber>>
       /\ last' = Outcome("newAgent", "UnauthorizedUpdate", 0, client, nonce, <<>>)
  ELSE newAgent(value, client, agentDomain, agentAddress, nonce, signature)

newAgentBy(sender, value, client, agentDomain, agentAddress, nonce, signature) ==
  newAgent(value, client, agentDomain, agentAddress, nonce, signature)

validationRequestBy(sender, client, agentValidatorId, agentServerId, dataHash, nonce, signature) ==
  validationRequest(client, agentValidatorId, agentServerId, dataHash, nonce, signature)

newAgentByCall(I) ==
  \E sender \in I.senders, value \in I.fees, client \in I.clients,
     agentDomain \in I.domains, agentAddress \in I.addresses :
    \E nonce \in NoncesFor("identity", client, I) :
    \E signature \in Signatures(client, I.forgers, "newAgent",
                       newAgentMessage(agentDomain, agentAddress, nonce)) :
      newAgentBy(sender, value, client, agentDomain, agentAddress, nonce, signature)

validationRequestByCall(I) ==
  \E sender \in I.senders, client \in I.clients, agentValidatorId \in I.agentIds,
     agentServerId \in I.agentIds, dataHash \in I.dataHashes :
    \E nonce \in NoncesFor("validation", client, I) :
    \E signature \in Signatures(client, I.forgers, "updateAgent",
                       validationRequestMessage(agentValidatorId, agentServerId,
                                                dataHash, nonce)) :
      validationRequestBy(sender, client, agentValidatorId, agentServerId, dataHash,
                          nonce, signature)

\* calls signed by one client and submitted by any account
Relay ==
  [Wide EXCEPT !.fees = {REGISTRATION_FEE}, !.clients = {1}, !.addresses = Accounts,
               !.agentIds = AgentIds, !.dataHashes = DataHashes]

NextRelay == newAgentByCall(Relay) \/ validationRequestByCall(Relay)

SpecRelay == Init /\ [][NextRelay]_vars

\* ------------------------------------------------- signatures in transit
\* the calls a principal can sign: the operation, the function name its
\* contract verifies under and the message it rebuilds from the arguments
SignedCalls(I) ==
  {[op |-> "newAgent", functionName |-> "newAgent",
    message |-> newAgentMessage(d, a, n)] :
     d \in I.domains, a \in I.addresses, n \in I.nonces}
  \cup
  {[op |-> "updateAgent", functionName |-> "updateAgent",
    message |-> updateAgentMessage(id, d, a, n)] :
     id \in I.agentIds, d \in I.domains, a \in I.addresses, n \in I.nonces}
  \cup
  {[op |-> "acceptFeedback", functionName |-> "updateAgent",
    message |-> acceptFeedbackMessage(c, v, n)] :
     c \in I.agentIds, v \in I.agentIds, n \in I.nonces}
  \cup
  {[op |-> "validationRequest", functionName |-> "updateAgent",
    message |-> validationRequestMessage(v, c, h, n)] :
     v \in I.agentIds, c \in I.agentIds, h \in I.dataHashes, n \in I.nonces}
  \cup
  {[op |-> "validationResponse", functionName |-> "updateAgent",
    message |-> validationResponseMessage(h, r, n)] :
     h \in I.dataHashes, r \in I.responses, n \in I.nonces}

\* a principal signs a call off chain; the signature is public from then on
generateSignature(signer, call) ==
  /\ last' = [op |-> "generateSignature", err |-> "ok", ret |-> 0,
              key |-> <<signer>>,
              event |-> <<call.op, Sign(signer, call.functionName, call.message)>>]
  /\ UNCHANGED <<storageVars, blockNumber>>

\* the signature check of an operation, met by the signature last published
verifySignature(client, call) ==
  /\ last.op = "generateSignature"
  /\ last' = [op |-> "verifySignature",
              err |-> IF signatureVerification(EvvmID, call.functionName,
                                               call.message, last.event[2], client)
                      THEN "ok" ELSE "InvalidSignature",
              ret |-> 0, key |-> <<client>>,
              event |-> <<last.event[1], call.op>>]
  /\ UNCHANGED <<storageVars, blockNumber>>

\* arguments chosen to be mistaken for one another: domains that read as
\* numbers and as number lists
Lookalike == [Wide EXCEPT !.domains = Domains \cup {"2", "1,2"}]

NextSignatures ==
  \/ \E signer \in Lookalike.clients, call \in SignedCalls(Lookalike) :
       generateSignature(signer, call)
  \/ \E client \in Lookalike.clients, call \in SignedCalls(Lookalike) :
       verifySignature(client, call)

SpecSignatures == Init /\ [][NextSignatures]_vars

\* the contract an external function belongs to
RegistryOf(op) ==
  CASE op \in {"newAgent", "updateAgent"} -> "identity"
    [] op = "acceptFeedback" -> "reputation"
    [] op \in {"validationRequest", "validationResponse"} -> "validation"
    [] OTHER -> "none"

MutatingOps ==
  {"newAgent", "updateAgent", "acceptFeedback", "validationRequest",
   "validationResponse"}

\* ============================================================ all registries
\* C1: of two calls to one registry that carry the same (client, nonce), only
\* one commits: a committed call is never followed by another committed call
\* to the same registry with the same (client, nonce).
C1_OneCommitPerNonce ==
  [][~(/\ last.op \in MutatingOps /\ last.err = "ok"
       /\ last'.op \in MutatingOps /\ last'.err = "ok"
       /\ RegistryOf(last'.op) = RegistryOf(last.op)
       /\ last'.key = last.key)]_vars

\* C2: every validationRequest that returns leaves its (client, nonce)
\* consumed in the ValidationRegistry, whichever branch it took.
C2_RequestConsumesNonce ==
  (last.op = "validationRequest" /\ last.err = "ok")
    => checkAsyncNonce["validation"][last.key]

\* C3: a mutating call that reverts leaves the storage of the three
\* registries unchanged, their nonce sets included.
C3_RevertChangesNothing ==
  [][(last'.op \in MutatingOps /\ last'.err # "ok") => UNCHANGED storageVars]_vars

\* a response by an address other than the validator's has just been
\* rejected in a state where agents, a request and nonces are stored
C3_Witness ==
  /\ last.op = "validationResponse" /\ last.err = "UnauthorizedValidator"
  /\ getAgentCount = 2
  /\ checkAsyncNonce["validation"][<<1, 1>>]
  /\ checkAsyncNonce["reputation"][<<1, 1>>]

\* C9: ids are handed out in sequence from 1: a committed newAgent returns
\* getAgentCount() + 1 as it was before the call and raises the count by one;
\* no other step changes the count.
C9_SequentialIds ==
  [][IF last'.op = "newAgent" /\ last'.err = "ok"
     THEN /\ last'.ret = getAgentCount + 1
          /\ getAgentCount' = getAgentCount + 1
     ELSE getAgentCount' = getAgentCount]_vars

\* the second agent got id 2 after the other two registries had committed
\* calls of their own
C9_Witness ==
  /\ last.op = "newAgent" /\ last.err = "ok" /\ last.ret = 2
  /\ getAgentCount = 2
  /\ checkAsyncNonce["validation"][<<1, 1>>]
  /\ checkAsyncNonce["reputation"][<<1, 1>>]

\* ====================================================== ValidationRegistry
\* C4: once a score is stored for a data hash it never changes, and no further
\* validationResponse for that hash commits.
C4_ScoreWrittenOnce ==
  [][\A h \in DataHashes :
       hasResponse[h] =>
         /\ hasResponse'[h]
         /\ validationResponses'[h] = validationResponses[h]
         /\ ~(/\ last'.op = "validationResponse" /\ last'.err = "ok"
              /\ last'.event[4] = h)]_vars

\* the state of a data hash in the documented state machine
C5_State(h) ==
  IF validationRequests[h].dataHash = ZeroDataHash THEN "ABSENT"
  ELSE IF validationRequests[h].responded THEN "RESPONDED"
  ELSE IF blockNumber > validationRequests[h].timestamp + EXPIRATION_SLOTS
    THEN "EXPIRED"
  ELSE "PENDING"

\* C5: a record never becomes absent again; it enters PENDING only by a
\* committed validationRequest made while it is ABSENT or EXPIRED; RESPONDED
\* is terminal.
C5_StateMachine ==
  [][\A h \in DataHashes :
       /\ C5_State(h) # "ABSENT" => C5_State(h)' # "ABSENT"
       /\ (C5_State(h) # "PENDING" /\ C5_State(h)' = "PENDING") =>
            /\ C5_State(h) \in {"ABSENT", "EXPIRED"}
            /\ last'.op = "validationRequest" /\ last'.err = "ok"
            /\ last'.event[4] = h
       /\ C5_State(h) = "RESPONDED" => C5_State(h)' = "RESPONDED"]_vars

\* ======================================================== IdentityRegistry
\* the registered agent ids
Registered == {id \in AgentIds : agents[id].agentId # 0}

\* C6: the domain index maps d to id exactly when agent id exists with domain
\* d, and the address index maps a to id exactly when agent id exists with
\* address a.
C6_IndexesMatchRecords ==
  /\ \A d \in Domains : \A id \in AgentIds :
       domainToAgentId[d] = id <=> (id \in Registered /\ agents[id].agentDomain = d)
  /\ \A a \in Addresses : \A id \in AgentIds :
       addressToAgentId[a] = id <=> (id \in Registered /\ agents[id].agentAddress = a)
  /\ \A d \in Domains : domainToAgentId[d] \in {0} \cup AgentIds
  /\ \A a \in Addresses : addressToAgentId[a] \in {0} \cup AgentIds

\* an update has committed and left an agent under its second domain while
\* the first one is free again
C6_Witness ==
  /\ last.op = "updateAgent" /\ last.err = "ok"
  /\ Registered # {}
  /\ \E d \in NamedDomains : domainToAgentId[d] = 0

\* C7: no two registered agents share a domain or an address, and every
\* registered agent has a non-empty domain and a non-null address.
C7_UniqueNonEmpty ==
  /\ \A i \in Registered : \A j \in Registered \ {i} :
       /\ agents[i].agentDomain # agents[j].agentDomain
       /\ agents[i].agentAddress # agents[j].agentAddress
  /\ \A i \in Registered :
       agents[i].agentDomain # "" /\ agents[i].agentAddress # NullAddress

C7_Witness ==
  /\ Cardinality(Registered) = 2
  /\ last.op = "newAgent" /\ last.err = "ok"

\* the checks of newAgent in the documented order: which are violated by a
\* call, and the revert reason of each
C8_Checks(value, client, agentDomain, agentAddress, nonce, signature) ==
  << <<value # REGISTRATION_FEE, "InsufficientFee">>,
     <<agentDomain = "", "InvalidDomain">>,
     <<agentAddress = NullAddress, "InvalidAddress">>,
     <<domainToAgentId[agentDomain] # 0, "DomainAlreadyRegistered">>,
     <<addressToAgentId[agentAddress] # 0, "AddressAlreadyRegistered">>,
     <<signature # Sign(client, "newAgent",
                        newAgentMessage(agentDomain, agentAddress, nonce)),
       "InvalidSignature">>,
     <<checkAsyncNonce["identity"][<<client, nonce>>], "NonceAlreadyUsed">> >>

C8_Earliest(checks) ==
  LET bad == {i \in 1..Len(checks) : checks[i][1]}
  IN IF bad = {} THEN "ok"
     ELSE checks[CHOOSE i \in bad : \A j \in bad : i <= j][2]

\* C8: newAgent reverts with the reason of the earliest violated check in the
\* order fee, empty domain, null address, domain claimed, address claimed,
\* signature, nonce; it passes when none is violated.
C8_NewAgentCheckOrder ==
  \A value \in Fees, client \in Clients, agentDomain \in Domains,
     agentAddress \in Addresses, nonce \in Nonces :
    \A signature \in Signatures(client, {999}, "newAgent",
                       newAgentMessage(agentDomain, agentAddress, nonce)) :
      newAgentRevert(value, client, agentDomain, agentAddress, nonce, signature)
        = C8_Earliest(C8_Checks(value, client, agentDomain, agentAddress, nonce,
                                signature))

\* a newAgent for a claimed domain has just failed Conflict at a time when
\* every (client, nonce) was consumed: it violated the nonce check as well
C8_Witness ==
  /\ last.op = "newAgent" /\ last.err = "DomainAlreadyRegistered"
  /\ \A k \in Clients \X Nonces : checkAsyncNonce["identity"][k]

\* C10: once newAgent(domain, address) has returned id, getAgent(id),
\* resolveByDomain(domain) and resolveByAddress(address) return the record
\* {id, domain, address}, and go on doing so until a committed updateAgent of
\* that agent; for an unregistered id, domain or address they fail NotFound.
C10_ReadsReturnRecord ==
  [][
      /\ \A id \in AgentIds, d \in Domains, a \in Addresses :
           (/\ last'.op = "newAgent" /\ last'.err = "ok" /\ last'.ret = id
            /\ last'.event = <<"AgentRegistered", id, d, a>>)
             => LET found == [err |-> "ok",
                              info |-> [agentId |-> id, agentDomain |-> d,
                                        agentAddress |-> a]]
                IN /\ getAgent(id)' = found
                   /\ resolveByDomain(d)' = found
                   /\ resolveByAddress(a)' = found
      /\ (last'.op = "newAgent" /\ last'.err = "ok") =>
           /\ last'.ret = last'.event[2]
           /\ last'.event[1] = "AgentRegistered"
      /\ \A id \in Registered :
           LET info == agents[id]
               same == [err |-> "ok", info |-> info]
           IN /\ getAgent(id) = same
              /\ resolveByDomain(info.agentDomain) = same
              /\ resolveByAddress(info.agentAddress) = same
              /\ ~(last'.op = "updateAgent" /\ last'.err = "ok" /\ last'.event[2] = id)
                   => /\ getAgent(id)' = same
                      /\ resolveByDomain(info.agentDomain)' = same
                      /\ resolveByAddress(info.agentAddress)' = same
      /\ \A id \in AnyAgentId \ Registered : getAgent(id).err = "AgentNotFound"
      /\ \A d \in Domains :
           (\A id \in Registered : agents[id].agentDomain # d)
             => resolveByDomain(d).err = "AgentNotFound"
      /\ \A a \in Addresses :
           (\A id \in Registered : agents[id].agentAddress # a)
             => resolveByAddress(a).err = "AgentNotFound"
    ]_vars

\* the second agent has just been registered and resolves by its id, domain
\* and address, while the first still resolves too
C10_Witness ==
  /\ last.op = "newAgent" /\ last.err = "ok" /\ last.ret = 2
  /\ getAgent(2).info = resolveByDomain(last.event[3]).info
  /\ getAgent(2).info = resolveByAddress(last.event[4]).info
  /\ getAgent(1).err = "ok"

\* C11: a newAgent call with the right fee, a valid signature and a fresh
\* nonce fails Conflict when its domain belongs to a registered agent, whatever
\* its address, and when its address belongs to a registered agent, whatever
\* its domain; a newAgent that fails Conflict leaves the count and every
\* record as they were.
C11_DuplicateIsConflict ==
  /\ [](\A client \in Clients, agentDomain \in NamedDomains,
           agentAddress \in Accounts, nonce \in Nonces :
          LET err == newAgentRevert(REGISTRATION_FEE, client, agentDomain,
                       agentAddress, nonce,
                       Sign(client, "newAgent",
                            newAgentMessage(agentDomain, agentAddress, nonce)))
          IN /\ (\E id \in Registered : agents[id].agentDomain = agentDomain)
                  => err = "DomainAlreadyRegistered"
             /\ (/\ \E id \in Registered : agents[id].agentAddress = agentAddress
                 /\ \A id \in Registered : agents[id].agentDomain # agentDomain)
                  => err = "AddressAlreadyRegistered")
  /\ [][(/\ last'.op = "newAgent"
         /\ last'.err \in {"DomainAlreadyRegistered", "AddressAlreadyRegistered"})
          => /\ getAgentCount' = getAgentCount
             /\ agents' = agents]_vars

\* a registration under a free domain has just failed on its address, which
\* the only registered agent holds
C11_Witness ==
  /\ last.op = "newAgent" /\ last.err = "AddressAlreadyRegistered"
  /\ getAgentCount = 1
  /\ getAgent(1).err = "ok"

\* what updateAgent of agent id answers to each caller and signer
C12_Authorised(id) ==
  \A sender \in Accounts, client \in Clients, d \in Domains, a \in Addresses,
     nonce \in Nonces :
    \A signature \in Signatures(client, {999}, "updateAgent",
                       updateAgentMessage(id, d, a, nonce)) :
      LET err == updateAgentRevert(sender, client, id, d, a, nonce, signature)
      IN /\ err = "ok" => sender = agents[id].agentAddress
         /\ sender # agents[id].agentAddress => err = "UnauthorizedUpdate"

\* C12: updateAgent of an existing agent commits only for the caller that is
\* the agent's recorded address, whoever signed, and every other caller fails
\* Unauthorized; once an update has changed the address, the previous address
\* fails Unauthorized and the new one passes with a valid signature and a
\* fresh nonce.
C12_CallerIsRecordedAddress ==
  /\ [](\A id \in Registered : C12_Authorised(id))
  /\ [][\A id \in AgentIds, old \in Accounts, new \in Accounts :
          (/\ last'.op = "updateAgent" /\ last'.err = "ok" /\ last'.event[2] = id
           /\ old = agents[id].agentAddress /\ new = agents'[id].agentAddress
           /\ old # new)
            => \A client \in Clients, nonce \in Nonces :
                 /\ \A d \in Domains, a \in Addresses :
                      updateAgentRevert(old, client, id, d, a, nonce,
                        Sign(client, "updateAgent",
                             updateAgentMessage(id, d, a, nonce)))'
                        = "UnauthorizedUpdate"
                 /\ ~checkAsyncNonce'["identity"][<<client, nonce>>]
                      => updateAgentRevert(new, client, id, "", NullAddress, nonce,
                           Sign(client, "updateAgent",
                                updateAgentMessage(id, "", NullAddress, nonce)))'
                           = "ok"]_vars

\* an update signed by a principal other than the agent's address has
\* committed and the only agent has left one address free
C12_Witness ==
  /\ last.op = "updateAgent" /\ last.err = "ok"
  /\ last.key[1] # last.event[4]
  /\ getAgentCount = 1
  /\ \E a \in Accounts : addressToAgentId[a] = 0

\* C13: an updateAgent by the agent's address with a valid signature and a
\* fresh nonce fails Conflict exactly when its non-empty domain belongs to
\* another agent or its non-null address belongs to another agent; the
\* agent's own domain and own address are no Conflict.
C13_ConflictOnlyWithOthers ==
  \A id \in Registered, client \in Clients, d \in Domains, a \in Addresses,
     nonce \in Nonces :
    ~checkAsyncNonce["identity"][<<client, nonce>>] =>
      LET err == updateAgentRevert(agents[id].agentAddress, client, id, d, a, nonce,
                   Sign(client, "updateAgent", updateAgentMessage(id, d, a, nonce)))
          others == Registered \ {id}
          taken == \/ d # "" /\ \E j \in others : agents[j].agentDomain = d
                   \/ a # NullAddress /\ \E j \in others : agents[j].agentAddress = a
      IN (err \in {"DomainAlreadyRegistered", "AddressAlreadyRegistered"}) <=> taken

\* C14: a committed updateAgent of agent id keeps the id, replaces the domain
\* only when a non-empty one is given and the address only when a non-null one
\* is given; a replaced domain or address stops resolving and is free for a
\* later newAgent while the new one resolves to the agent; an unchanged field
\* keeps its index entry; the count, every other record and every other index
\* entry stay as they were.
C14_UpdateChangesOnlySupplied ==
  /\ [](\A id \in Registered, d \in Domains, a \in Addresses :
          /\ updatedAgent(id, d, a).agentId = id
          /\ updatedAgent(id, d, a).agentDomain
               = IF d = "" THEN agents[id].agentDomain ELSE d
          /\ updatedAgent(id, d, a).agentAddress
               = IF a = NullAddress THEN agents[id].agentAddress ELSE a
          /\ d = "" => updateDomainIndex(id, d) = domainToAgentId
          /\ a = NullAddress => updateAddressIndex(id, a) = addressToAgentId)
  /\ [][\A id \in AgentIds :
          (last'.op = "updateAgent" /\ last'.err = "ok" /\ last'.event[2] = id) =>
            /\ agents[id].agentId = id
            /\ agents'[id] = [agentId |-> id, agentDomain |-> last'.event[3],
                              agentAddress |-> last'.event[4]]
            /\ \A j \in AnyAgentId \ {id} : agents'[j] = agents[j]
            /\ agentIdCounter' = agentIdCounter
            /\ \A d \in Domains :
                 /\ domainToAgentId'[d] =
                      IF d = agents'[id].agentDomain THEN id
                      ELSE IF d = agents[id].agentDomain THEN 0
                      ELSE domainToAgentId[d]
                 /\ d = agents'[id].agentDomain
                      => resolveByDomain(d)' = [err |-> "ok", info |-> agents'[id]]
                 /\ (d = agents[id].agentDomain /\ d # agents'[id].agentDomain)
                      => /\ resolveByDomain(d)'.err = "AgentNotFound"
                         /\ \A client \in Clients, a \in Accounts, nonce \in Nonces :
                              newAgentRevert(REGISTRATION_FEE, client, d, a, nonce,
                                Sign(client, "newAgent", newAgentMessage(d, a, nonce)))'
                                # "DomainAlreadyRegistered"
            /\ \A a \in Addresses :
                 /\ addressToAgentId'[a] =
                      IF a = agents'[id].agentAddress THEN id
                      ELSE IF a = agents[id].agentAddress THEN 0
                      ELSE addressToAgentId[a]
                 /\ a = agents'[id].agentAddress
                      => resolveByAddress(a)' = [err |-> "ok", info |-> agents'[id]]
                 /\ (a = agents[id].agentAddress /\ a # agents'[id].agentAddress)
                      => resolveByAddress(a)'.err = "AgentNotFound"]_vars

\* the only agent has just been updated and now holds the second domain and
\* the second address, the first of each being free
C14_Witness ==
  /\ last.op = "updateAgent" /\ last.err = "ok"
  /\ last.event = <<"AgentUpdated", 1, "b.example.com", 2>>
  /\ domainToAgentId["a.example.com"] = 0
  /\ addressToAgentId[1] = 0

\* ====================================================== ReputationRegistry
\* C15: acceptFeedback for two registered agents passes only for the caller
\* that is the server agent's recorded address; any other caller, the client
\* agent's address included, fails Unauthorized with a valid signature and a
\* fresh nonce, and a call that fails Unauthorized records nothing.
C15_OnlyServerAddress ==
  /\ [](\A sender \in Accounts, client \in Clients, agentClientId \in Registered,
           agentServerId \in Registered, nonce \in Nonces :
          \A signature \in Signatures(client, {999}, "updateAgent",
                             acceptFeedbackMessage(agentClientId, agentServerId, nonce)) :
            LET err == acceptFeedbackRevert(sender, client, agentClientId,
                                            agentServerId, nonce, signature)
            IN /\ err = "ok" => sender = agents[agentServerId].agentAddress
               /\ (/\ sender # agents[agentServerId].agentAddress
                   /\ signature.signer = client
                   /\ ~checkAsyncNonce["reputation"][<<client, nonce>>])
                    => err = "UnauthorizedFeedback")
  /\ [][(last'.op = "acceptFeedback" /\ last'.err = "UnauthorizedFeedback")
          => UNCHANGED <<reputationVars, checkAsyncNonce>>]_vars

\* with two agents registered, a call by an address other than the server's
\* has just been rejected
C15_Witness ==
  /\ last.op = "acceptFeedback" /\ last.err = "UnauthorizedFeedback"
  /\ getAgentCount = 2
  /\ clientServerToAuthId[<<1, 2>>] = ZeroHash

\* C16: an authorization id stored for an ordered pair of agents never
\* changes and stays authorized, and every later acceptFeedback for that pair
\* by the server's address with a valid signature and a fresh nonce fails
\* Conflict.
C16_AuthorizationWriteOnce ==
  /\ [](\A agentClientId \in Registered, agentServerId \in Registered,
           client \in Clients, nonce \in Nonces :
          (/\ getFeedbackAuthId(agentClientId, agentServerId) # ZeroHash
           /\ ~checkAsyncNonce["reputation"][<<client, nonce>>])
            => acceptFeedbackRevert(agents[agentServerId].agentAddress, client,
                 agentClientId, agentServerId, nonce,
                 Sign(client, "updateAgent",
                      acceptFeedbackMessage(agentClientId, agentServerId, nonce)))
                 = "FeedbackAlreadyAuthorized")
  /\ [][\A c \in AnyAgentId, s \in AnyAgentId :
          getFeedbackAuthId(c, s) # ZeroHash
            => /\ getFeedbackAuthId(c, s)' = getFeedbackAuthId(c, s)
               /\ isFeedbackAuthorized(c, s)'
                    = [isAuthorized |-> TRUE,
                       feedbackAuthId |-> getFeedbackAuthId(c, s)]]_reputationVars

\* a second authorization of a pair has just been refused although its nonce
\* was fresh, after the server agent had moved to another address
C16_Witness ==
  /\ last.op = "acceptFeedback" /\ last.err = "FeedbackAlreadyAuthorized"
  /\ checkAsyncNonce["identity"][<<1, 2>>]
  /\ getAgentCount = 1
  /\ \E n \in Nonces : ~checkAsyncNonce["reputation"][<<1, n>>]

C18_ExpiredAfterWindow ==
  /\ \A h \in DataHashes :
       getValidationRequest(h).err = "ok" =>
         \A sender \in Accounts, client \in Clients, response \in {0, 100},
            nonce \in Nonces :
           \A signature \in Signatures(client, {999}, "updateAgent",
                              validationResponseMessage(h, response, nonce)) :
             LET err == validationResponseRevert(sender, client, h, response,
                                                 nonce, signature)
                 request == validationRequests[h]
                 deadline == request.timestamp + EXPIRATION_SLOTS
             IN /\ blockNumber > deadline => err = "RequestExpired"
                /\ err = "ok" => blockNumber <= deadline
                /\ (/\ blockNumber = deadline
                    /\ ~request.responded
                    /\ signature.signer = client
                    /\ ~checkAsyncNonce["validation"][<<client, nonce>>]
                    /\ sender = agents[request.agentValidatorId].agentAddress)
                     => err = "ok"
  /\ (last.op = "validationResponse" /\ last.err = "ok")
       => blockNumber <= validationRequests[last.event[4]].timestamp + EXPIRATION_SLOTS

\* a response has just committed at the last height of the window of a
\* request created at height 0
C18_Witness ==
  /\ last.op = "validationResponse" /\ last.err = "ok"
  /\ blockNumber = EXPIRATION_SLOTS
  /\ validationRequests[1].timestamp = 0
  /\ validationRequests[1].responded

\* C19: validationResponse with a score above 100 fails InvalidResponse for
\* every caller, hash, nonce and signature and changes nothing; the scores 0
\* and 100 pass for a pending request answered by its validator with a valid
\* signature and a fresh nonce; every score read with hasResponse = true lies
\* in 0..100.
C19_ScoreInRange ==
  /\ [](/\ \A h \in AnyDataHash :
             getValidationResponse(h).hasResponse
               => getValidationResponse(h).response \in 0..100
        /\ \A sender \in Accounts, client \in Clients, h \in AnyDataHash,
              response \in {101, 255}, nonce \in Nonces :
             \A signature \in Signatures(client, {999}, "updateAgent",
                                validationResponseMessage(h, response, nonce)) :
               validationResponseRevert(sender, client, h, response, nonce,
                                        signature) = "InvalidResponse"
        /\ \A h \in DataHashes, client \in Clients, response \in {0, 100},
              nonce \in Nonces :
             (/\ isValidationPending(h).pending
              /\ ~checkAsyncNonce["validation"][<<client, nonce>>])
               => validationResponseRevert(
                    agents[validationRequests[h].agentValidatorId].agentAddress,
                    client, h, response, nonce,
                    Sign(client, "updateAgent",
                         validationResponseMessage(h, response, nonce))) = "ok")
  /\ [][(last'.op = "validationResponse" /\ last'.err = "InvalidResponse")
          => UNCHANGED storageVars]_vars

\* the boundary score 100 has just been stored
C19_Witness ==
  /\ last.op = "validationResponse" /\ last.err = "ok"
  /\ last.event[5] = 100
  /\ getValidationResponse(1) = [hasResponse |-> TRUE, response |-> 100]

\* C20: a response to a pending request with a valid signature and a fresh
\* nonce passes for the caller that is the address IdentityRegistry now
\* records for the request's validator agent and fails Unauthorized for
\* every other caller; once updateAgent has moved the validator agent of a
\* pending request to a new address, the old address fails Unauthorized and
\* the new one passes.
C20_ValidatorResolvedAtResponse ==
  /\ [](\A h \in DataHashes, sender \in Accounts, client \in Clients,
           response \in {0, 100}, nonce \in Nonces :
          (/\ isValidationPending(h).pending
           /\ ~checkAsyncNonce["validation"][<<client, nonce>>])
            => validationResponseRevert(sender, client, h, response, nonce,
                 Sign(client, "updateAgent",
                      validationResponseMessage(h, response, nonce)))
                 = IF sender = getAgent(validationRequests[h].agentValidatorId).info.agentAddress
                   THEN "ok" ELSE "UnauthorizedValidator")
  /\ [][\A h \in DataHashes, old \in Accounts, new \in Accounts :
          (/\ last'.op = "updateAgent" /\ last'.err = "ok"
           /\ last'.event[2] = validationRequests[h].agentValidatorId
           /\ isValidationPending(h).pending
           /\ old = agents[validationRequests[h].agentValidatorId].agentAddress
           /\ new = agents'[validationRequests[h].agentValidatorId].agentAddress
           /\ old # new)
            => \A client \in Clients, nonce \in Nonces :
                 ~checkAsyncNonce'["validation"][<<client, nonce>>]
                   => /\ validationResponseRevert(old, client, h, 100, nonce,
                           Sign(client, "updateAgent",
                                validationResponseMessage(h, 100, nonce)))'
                           = "UnauthorizedValidator"
                      /\ validationResponseRevert(new, client, h, 100, nonce,
                           Sign(client, "updateAgent",
                                validationResponseMessage(h, 100, nonce)))'
                           = "ok"]_vars

\* the validator agent of a pending request has just moved to address 2
C20_Witness ==
  /\ last.op = "updateAgent" /\ last.err = "ok"
  /\ last.event[2] = validationRequests[1].agentValidatorId
  /\ last.event[4] = 2
  /\ isValidationPending(1).pending

\* C21: isValidationPending(h) returns exists = a record is stored for h and
\* pending = exists, blockNumber <= timestamp + EXPIRATION_SLOTS and not
\* responded; a validationResponse for h passes only where it returns
\* (true, true), and one that committed found it so.
C21_PendingGatesResponse ==
  /\ [](\A h \in AnyDataHash :
          /\ isValidationPending(h).exists <=> getValidationRequest(h).err = "ok"
          /\ isValidationPending(h).pending <=>
               /\ getValidationRequest(h).err = "ok"
               /\ blockNumber <= validationRequests[h].timestamp + EXPIRATION_SLOTS
               /\ ~validationRequests[h].responded
          /\ \A sender \in Accounts, client \in Clients, response \in Responses,
                nonce \in Nonces :
               validationResponseRevert(sender, client, h, response, nonce,
                 Sign(client, "updateAgent",
                      validationResponseMessage(h, response, nonce))) = "ok"
                 => isValidationPending(h) = [exists |-> TRUE, pending |-> TRUE])
  /\ [][\A h \in DataHashes :
          (last'.op = "validationResponse" /\ last'.err = "ok" /\ last'.event[4] = h)
            => /\ isValidationPending(h) = [exists |-> TRUE, pending |-> TRUE]
               /\ isValidationPending(h)' = [exists |-> TRUE, pending |-> FALSE]]_vars

\* a response has just committed, and the request it answered is no longer
\* pending
C21_Witness ==
  /\ last.op = "validationResponse" /\ last.err = "ok"
  /\ isValidationPending(1) = [exists |-> TRUE, pending |-> FALSE]
  /\ blockNumber = 0

\* C22: a consumed (client, nonce) is never removed from a registry's set; a
\* step changes the set of the registry it calls at most; a call fails Replay
\* only on the set of its own registry, so a (client, nonce) consumed in one
\* registry is still usable in the other two.
C22_NonceSetsIndependent ==
  /\ [](\A client \in Clients, nonce \in Nonces, sender \in Accounts :
          /\ \A d \in NamedDomains, a \in Accounts :
               newAgentRevert(REGISTRATION_FEE, client, d, a, nonce,
                 Sign(client, "newAgent", newAgentMessage(d, a, nonce)))
                 = "NonceAlreadyUsed"
                 => checkAsyncNonce["identity"][<<client, nonce>>]
          /\ \A id \in AgentIds :
               updateAgentRevert(sender, client, id, "", NullAddress, nonce,
                 Sign(client, "updateAgent",
                      updateAgentMessage(id, "", NullAddress, nonce)))
                 = "NonceAlreadyUsed"
                 => checkAsyncNonce["identity"][<<client, nonce>>]
          /\ \A c \in AgentIds, s \in AgentIds :
               /\ acceptFeedbackRevert(sender, client, c, s, nonce,
                    Sign(client, "updateAgent", acceptFeedbackMessage(c, s, nonce)))
                    = "NonceAlreadyUsed"
                    => checkAsyncNonce["reputation"][<<client, nonce>>]
               /\ \A h \in DataHashes :
                    validationRequestRevert(client, c, s, h, nonce,
                      Sign(client, "updateAgent",
                           validationRequestMessage(c, s, h, nonce)))
                      = "NonceAlreadyUsed"
                      => checkAsyncNonce["validation"][<<client, nonce>>]
          /\ \A h \in DataHashes, response \in {0, 100} :
               validationResponseRevert(sender, client, h, response, nonce,
                 Sign(client, "updateAgent",
                      validationResponseMessage(h, response, nonce)))
                 = "NonceAlreadyUsed"
                 => checkAsyncNonce["validation"][<<client, nonce>>])
  /\ [][\A r \in Registries :
          /\ \A k \in Clients \X Nonces :
               checkAsyncNonce[r][k] => checkAsyncNonce'[r][k]
          /\ r # RegistryOf(last'.op)
               => checkAsyncNonce'[r] = checkAsyncNonce[r]]_checkAsyncNonce

\* client 1 has spent nonce 1 in each of the three registries, last of all
\* in the reputation registry
C22_Witness ==
  /\ \A r \in Registries : checkAsyncNonce[r][<<1, 1>>]
  /\ last.op = "acceptFeedback" /\ last.err = "ok" /\ last.key = <<1, 1>>

\* C23: for every ordered pair isFeedbackAuthorized and getFeedbackAuthId
\* return the same id, isAuthorized holds exactly when that id is non-zero,
\* and a pair without authorization reads (false, 0); a committed
\* acceptFeedback authorizes its own pair and leaves the reading of every
\* other pair, the reversed one included, as it was.
C23_ReadsAgree ==
  /\ [](\A c \in AnyAgentId, s \in AnyAgentId :
          /\ isFeedbackAuthorized(c, s).feedbackAuthId = getFeedbackAuthId(c, s)
          /\ isFeedbackAuthorized(c, s).isAuthorized
               <=> getFeedbackAuthId(c, s) # ZeroHash
          /\ clientServerToAuthId[<<c, s>>] = ZeroHash
               => isFeedbackAuthorized(c, s)
                    = [isAuthorized |-> FALSE, feedbackAuthId |-> ZeroHash])
  /\ [][\A c \in AnyAgentId, s \in AnyAgentId :
          (/\ last'.op = "acceptFeedback" /\ last'.err = "ok"
           /\ last'.event[2] = c /\ last'.event[3] = s)
            => /\ isFeedbackAuthorized(c, s)'
                    = [isAuthorized |-> TRUE, feedbackAuthId |-> last'.event[4]]
               /\ \A c2 \in AnyAgentId, s2 \in AnyAgentId :
                    <<c2, s2>> # <<c, s>>
                      => isFeedbackAuthorized(c2, s2)' = isFeedbackAuthorized(c2, s2)
          ]_reputationVars

\* the pair (1, 2) has just been authorized and the reversed pair is not
C23_Witness ==
  /\ last.op = "acceptFeedback" /\ last.err = "ok"
  /\ last.event[2] = 1 /\ last.event[3] = 2
  /\ isFeedbackAuthorized(1, 2).isAuthorized
  /\ isFeedbackAuthorized(2, 1) = [isAuthorized |-> FALSE, feedbackAuthId |-> ZeroHash]

\* ============================================================== signatures
\* C24: a signature made for a call to one of newAgent, updateAgent,
\* acceptFeedback, validationRequest and validationResponse fails the
\* signature check of every call to another of them, whatever the arguments
\* and the principal named.
C24_SignatureBindsOperation ==
  (last.op = "verifySignature" /\ last.event[1] # last.event[2])
    => last.err = "InvalidSignature"

\* a signature made for updateAgent has just been turned down by
\* validationRequest
C24_Witness ==
  /\ last.op = "verifySignature"
  /\ last.event = <<"updateAgent", "validationRequest">>
  /\ last.err = "InvalidSignature"

C26_NeverDeletedNorRenumbered ==
  /\ [](\A id \in AnyAgentId :
          /\ agentExists(id) <=> (1 <= id /\ id <= getAgentCount)
          /\ agentExists(id) => /\ agents[id].agentId = id
                                /\ getAgent(id).info.agentId = id)
  /\ [][\A id \in AnyAgentId : agentExists(id) => agentExists(id)']_identityVars

\* both agents exist after one of them has been updated
C26_Witness ==
  /\ last.op = "updateAgent" /\ last.err = "ok"
  /\ getAgentCount = 2
  /\ agentExists(1) /\ agentExists(2)

\* ====================================================== ReputationRegistry
\* the ordered pairs of agent ids
C27_Pairs == AnyAgentId \X AnyAgentId

\* C27: every recorded authorization id is non-zero and flagged as
\* authorized, the one a committed acceptFeedback has just emitted included,
\* and two different ordered pairs never hold the same id.
C27_IdsNonZeroAndDistinct ==
  /\ ZeroHash \notin feedbackAuthorizations
  /\ \A p \in C27_Pairs :
       clientServerToAuthId[p] # ZeroHash
         => clientServerToAuthId[p] \in feedbackAuthorizations
  /\ (last.op = "acceptFeedback" /\ last.err = "ok")
       => /\ last.event[4] # ZeroHash
          /\ last.event[4] = clientServerToAuthId[<<last.event[2], last.event[3]>>]
  /\ \A p \in C27_Pairs, q \in C27_Pairs :
       (p # q /\ clientServerToAuthId[p] # ZeroHash)
         => clientServerToAuthId[p] # clientServerToAuthId[q]

\* two different pairs hold authorizations made under the same entropy
C27_Witness ==
  \E p \in C27_Pairs, q \in C27_Pairs :
    /\ p # q
    /\ clientServerToAuthId[p] # ZeroHash /\ clientServerToAuthId[q] # ZeroHash
    /\ clientServerToAuthId[p][3] = clientServerToAuthId[q][3]

\* the checks of acceptFeedback in the documented order
C28_Checks(sender, client, agentClientId, agentServerId, nonce, signature) ==
  << <<~agentExists(agentClientId) \/ ~agentExists(agentServerId), "AgentNotFound">>,
     <<signature # Sign(client, "updateAgent",
                        acceptFeedbackMessage(agentClientId, agentServerId, nonce)),
       "InvalidSignature">>,
     <<sender # agents[agentServerId].agentAddress, "UnauthorizedFeedback">>,
     <<checkAsyncNonce["reputation"][<<client, nonce>>], "NonceAlreadyUsed">>,
     <<clientServerToAuthId[<<agentClientId, agentServerId>>] # ZeroHash,
       "FeedbackAlreadyAuthorized">> >>

\* C28: acceptFeedback fails with the reason of the earliest violated check
\* in the order: both agents exist, signature, caller is the server's
\* address, nonce unused, pair not yet authorized.
C28_FeedbackCheckOrder ==
  \A sender \in Accounts, client \in Clients, agentClientId \in AnyAgentId,
     agentServerId \in AnyAgentId, nonce \in Nonces :
    \A signature \in Signatures(client, {999}, "updateAgent",
                       acceptFeedbackMessage(agentClientId, agentServerId, nonce)) :
      acceptFeedbackRevert(sender, client, agentClientId, agentServerId, nonce,
                           signature)
        = C8_Earliest(C28_Checks(sender, client, agentClientId, agentServerId,
                                 nonce, signature))

\* ====================================================== ValidationRegistry
\* the checks of validationResponse in the documented order
C29_Checks(sender, client, dataHash, response, nonce, signature) ==
  << <<response > 100, "InvalidResponse">>,
     <<validationRequests[dataHash].dataHash = ZeroDataHash,
       "ValidationRequestNotFound">>,
     <<blockNumber > validationRequests[dataHash].timestamp + EXPIRATION_SLOTS,
       "RequestExpired">>,
     <<validationRequests[dataHash].responded, "ValidationAlreadyResponded">>,
     <<signature # Sign(client, "updateAgent",
                        validationResponseMessage(dataHash, response, nonce)),
       "InvalidSignature">>,
     <<checkAsyncNonce["validation"][<<client, nonce>>], "NonceAlreadyUsed">>,
     <<sender # agents[validationRequests[dataHash].agentValidatorId].agentAddress,
       "UnauthorizedValidator">> >>

C30_Checks(client, agentValidatorId, agentServerId, dataHash, nonce, signature) ==
  << <<dataHash = ZeroDataHash, "InvalidDataHash">>,
     <<~agentExists(agentValidatorId) \/ ~agentExists(agentServerId),
       "AgentNotFound">>,
     <<signature # Sign(client, "updateAgent",
                        validationRequestMessage(agentValidatorId, agentServerId,
                                                 dataHash, nonce)),
       "InvalidSignature">>,
     <<checkAsyncNonce["validation"][<<client, nonce>>], "NonceAlreadyUsed">> >>

C31_RespondedRequestIgnored ==
  /\ [](\A h \in DataHashes :
          (/\ validationRequests[h].responded
           /\ blockNumber <= validationRequests[h].timestamp + EXPIRATION_SLOTS) =>
            \A client \in Clients, v \in Registered, s \in Registered,
               nonce \in Nonces :
              ~checkAsyncNonce["validation"][<<client, nonce>>] =>
                validationRequestRevert(client, v, s, h, nonce,
                  Sign(client, "updateAgent",
                       validationRequestMessage(v, s, h, nonce))) = "ok")
  /\ [][\A h \in DataHashes :
          (/\ validationRequests[h].responded
           /\ blockNumber <= validationRequests[h].timestamp + EXPIRATION_SLOTS
           /\ last'.op = "validationRequest" /\ last'.err = "ok"
           /\ last'.event[4] = h) =>
            /\ validationRequests'[h] = validationRequests[h]
            /\ validationResponses'[h] = validationResponses[h]
            /\ hasResponse'[h] = hasResponse[h]
            /\ getValidationResponse(h)' = getValidationResponse(h)]_vars

\* a request naming agent 2 as validator and agent 1 as server has just
\* committed for the hash whose responded record names them the other way
\* round
C31_Witness ==
  /\ last.op = "validationRequest" /\ last.err = "ok"
  /\ last.event = <<"ValidationRequestEvent", 2, 1, 1>>
  /\ validationRequests[1].responded
  /\ validationRequests[1].agentValidatorId = 1
  /\ validationRequests[1].agentServerId = 2
  /\ hasResponse[1]
  /\ blockNumber <= validationRequests[1].timestamp + EXPIRATION_SLOTS

\* C32: updateAgent with an empty new domain and a null new address, called
\* by the agent's recorded address with a valid signature and an unconsumed
\* nonce, passes every check; taken as a step it returns true, leaves every
\* agent record, the counter and both indexes as they were, and consumes the
\* (client, nonce) it carried and no other.
C32_NoChangeUpdateCommits ==
  /\ [](\A id \in Registered, client \in Clients, nonce \in Nonces :
          ~checkAsyncNonce["identity"][<<client, nonce>>] =>
            updateAgentRevert(agents[id].agentAddress, client, id, "", NullAddress,
              nonce, Sign(client, "updateAgent",
                          updateAgentMessage(id, "", NullAddress, nonce))) = "ok")
  /\ [][\A id \in AgentIds, client \in Clients, nonce \in Nonces :
          (/\ agents[id].agentId # 0
           /\ ~checkAsyncNonce["identity"][<<client, nonce>>]
           /\ updateAgent(agents[id].agentAddress, client, id, "", NullAddress,
                nonce, Sign(client, "updateAgent",
                            updateAgentMessage(id, "", NullAddress, nonce)))) =>
            /\ last'.op = "updateAgent" /\ last'.err = "ok" /\ last'.ret = 1
            /\ agents' = agents
            /\ agentIdCounter' = agentIdCounter
            /\ domainToAgentId' = domainToAgentId
            /\ addressToAgentId' = addressToAgentId
            /\ checkAsyncNonce' =
                 [checkAsyncNonce EXCEPT !["identity"][<<client, nonce>>] = TRUE]]_vars

\* an update has just committed on the second client's first nonce while the
\* only agent still holds the domain and the address it was registered with
\* by the first client, whose second nonce is unconsumed: the update changed
\* neither field
C32_Witness ==
  /\ last.op = "updateAgent" /\ last.err = "ok" /\ last.ret = 1
  /\ last.key = <<2, 1>>
  /\ last.event = <<"AgentUpdated", 1, "a.example.com", 1>>
  /\ agentIdCounter = 2
  /\ agents[1] = [agentId |-> 1, agentDomain |-> "a.example.com", agentAddress |-> 1]
  /\ domainToAgentId["a.example.com"] = 1 /\ domainToAgentId["b.example.com"] = 0
  /\ addressToAgentId[1] = 1 /\ addressToAgentId[2] = 0
  /\ checkAsyncNonce["identity"][<<1, 1>>]
  /\ ~checkAsyncNonce["identity"][<<1, 2>>]
  /\ ~checkAsyncNonce["identity"][<<2, 2>>]

\* ====================================================== ValidationRegistry
\* C33: the request event of a committed validationRequest carries the
\* validator id and the server id held by the stored record of its data hash
\* when it is emitted, whichever branch emits it.
C33_EventCarriesStoredIds ==
  (last.op = "validationRequest" /\ last.err = "ok") =>
    /\ last.event[2] = validationRequests[last.event[4]].agentValidatorId
    /\ last.event[3] = validationRequests[last.event[4]].agentServerId

\* C34: for every data hash getValidationResponse reports hasResponse = true
\* exactly when the stored request is marked responded, and a hash that
\* isValidationPending reports as pending has no stored response.
C34_HasResponseIffResponded ==
  \A h \in DataHashes :
    /\ getValidationResponse(h).hasResponse <=> validationRequests[h].responded
    /\ isValidationPending(h).pending => ~getValidationResponse(h).hasResponse

\* ============================================================ all registries
\* C35: in every state reached by any interleaving of the operations of the
\* three registries, the client and server agent ids of every stored
\* feedback authorization and the validator and server agent ids of every
\* stored validation request are ids for which agentExists is true.
C35_StoredIdsExist ==
  /\ \A c \in AnyAgentId, s \in AnyAgentId :
       clientServerToAuthId[<<c, s>>] # ZeroHash =>
         agentExists(c) /\ agentExists(s)
  /\ \A h \in AnyDataHash :
       validationRequests[h].dataHash # ZeroDataHash =>
         /\ agentExists(validationRequests[h].agentValidatorId)
         /\ agentExists(validationRequests[h].agentServerId)

\* an authorization for client agent 1 and server agent 2 and a request that
\* names agent 2 as validator and agent 1 as server are both stored, the
\* request past its window
C35_Witness ==
  /\ clientServerToAuthId[<<1, 2>>] # ZeroHash
  /\ validationRequests[1].dataHash = 1
  /\ validationRequests[1].agentValidatorId = 2
  /\ validationRequests[1].agentServerId = 1
  /\ blockNumber > validationRequests[1].timestamp + EXPIRATION_SLOTS

\* C36: updateAgent, acceptFeedback and validationResponse, called by the
\* address they authorise with a valid signature of a principal over the
\* call and a nonce that principal has not consumed, pass or fail by the
\* stored records alone, whoever the principal is: updateAgent passes unless
\* the new domain or address is indexed, acceptFeedback unless the pair is
\* authorised already, validationResponse with a score in range whenever the
\* request is pending.
C36_PrincipalUnconstrained ==
  \A client \in Clients, nonce \in Nonces :
    /\ ~checkAsyncNonce["identity"][<<client, nonce>>] =>
         \A id \in Registered, d \in Domains, a \in Addresses :
           updateAgentRevert(agents[id].agentAddress, client, id, d, a, nonce,
             Sign(client, "updateAgent", updateAgentMessage(id, d, a, nonce)))
           = IF d # "" /\ domainToAgentId[d] # 0 THEN "DomainAlreadyRegistered"
             ELSE IF a # NullAddress /\ addressToAgentId[a] # 0
               THEN "AddressAlreadyRegistered"
             ELSE "ok"
    /\ ~checkAsyncNonce["reputation"][<<client, nonce>>] =>
         \A c \in Registered, s \in Registered :
           acceptFeedbackRevert(agents[s].agentAddress, client, c, s, nonce,
             Sign(client, "updateAgent", acceptFeedbackMessage(c, s, nonce)))
           = IF clientServerToAuthId[<<c, s>>] # ZeroHash
             THEN "FeedbackAlreadyAuthorized" ELSE "ok"
    /\ ~checkAsyncNonce["validation"][<<client, nonce>>] =>
         \A h \in DataHashes, response \in {0, 100} :
           isValidationPending(h).pending =>
             validationResponseRevert(
               agents[validationRequests[h].agentValidatorId].agentAddress,
               client, h, response, nonce,
               Sign(client, "updateAgent",
                    validationResponseMessage(h, response, nonce))) = "ok"

\* principal 2 has signed an update, an authorization and, last, a response
\* that all committed, while principal 1 registered the only agent, which has
\* been at address 1 ever since: the one update that committed left it there
C36_Witness ==
  /\ last.op = "validationResponse" /\ last.err = "ok" /\ last.key = <<2, 1>>
  /\ agentIdCounter = 2
  /\ agents[1].agentAddress = 1 /\ addressToAgentId[2] = 0
  /\ checkAsyncNonce["identity"][<<1, 1>>] /\ ~checkAsyncNonce["identity"][<<1, 2>>]
  /\ checkAsyncNonce["identity"][<<2, 1>>] /\ ~checkAsyncNonce["identity"][<<2, 2>>]
  /\ checkAsyncNonce["reputation"][<<2, 1>>]
  /\ ~checkAsyncNonce["reputation"][<<1, 1>>]
  /\ clientServerToAuthId[<<1, 1>>] # ZeroHash

\* ====================================================== ValidationRegistry
\* C37: while blocks keep being mined, every data hash that
\* isValidationPending reports as pending is later reported as not pending,
\* because it got its response or because the height passed timestamp +
\* EXPIRATION_SLOTS; what makes that certain is that the timestamp of a
\* record does not move while the record is pending.
C37_PendingEnds ==
  /\ \A h \in DataHashes :
       isValidationPending(h).pending ~> ~isValidationPending(h).pending
  /\ [][\A h \in DataHashes :
          (isValidationPending(h).pending /\ isValidationPending(h).pending') =>
            validationRequests'[h].timestamp = validationRequests[h].timestamp]_vars

\* the request made again after the first one expired has expired in its
\* turn without a response
C37_Witness ==
  /\ validationRequests[1].dataHash = 1
  /\ validationRequests[1].timestamp = EXPIRATION_SLOTS + 1
  /\ ~validationRequests[1].responded
  /\ blockNumber > validationRequests[1].timestamp + EXPIRATION_SLOTS
  /\ isValidationPending(1) = [exists |-> TRUE, pending |-> FALSE]

====
